---- MODULE Spec2Model ----
(***************************************************************************)
(* ValidatorConfig of ndn-cxx (src/security/validator-config.cpp): the     *)
(* configuration loader (load, onConfigRule, onConfigTrustAnchor) and the  *)
(* policy evaluator (the two checkPolicy overloads), with the chain        *)
(* validation they hand over to.                                           *)
(***************************************************************************)
EXTENDS Integers, Sequences, FiniteSets, TLC

VARIABLES
  m_stepLimit,      \* ValidatorConfig::m_stepLimit, set by the constructor
  m_dataRules,      \* ValidatorConfig::m_dataRules, the DataRuleList
  m_interestRules,  \* ValidatorConfig::m_interestRules, the InterestRuleList
  m_anchors,        \* ValidatorConfig::m_anchors: key name -> certificate
  call,             \* the load call in progress or last returned
  raised,           \* the error the last call raised, NoError when none
  vstate,           \* "idle", "pending" (requests in flight) or "done"
  chain,            \* packets waiting for their signing certificate
  nOk,              \* times the caller's onValidated was invoked
  nFail,            \* times the caller's onValidationFailed was invoked
  trace             \* what the last checkPolicy call did

vars == <<m_stepLimit, m_dataRules, m_interestRules, m_anchors, call, raised,
          vstate, chain, nOk, nFail, trace>>

configVars == <<m_dataRules, m_interestRules, m_anchors>>
validationVars == <<vstate, chain, nOk, nFail, trace>>

----------------------------------------------------------------------------
(* Bounds of the model. *)

\* the largest step limit the constructor is given
MaxStepLimit == 2
\* rules held by the two rule lists together
MaxRules == 2
\* sections of one configuration tree
MaxSections == 2
\* entries of the rule sections the grammar is checked on
MaxEntries == 4
\* certificate requests in flight for one validation
MaxDepth == 4

----------------------------------------------------------------------------
(* Strings, names, errors. *)

NoError == <<>>

\* boost::algorithm::to_lower on the strings that occur in a configuration
ToLower(s) ==
  CASE s = "ID" -> "id"
    [] s = "For" -> "for"
    [] s = "Filter" -> "filter"
    [] s = "Checker" -> "checker"
    [] s = "Type" -> "type"
    [] s = "File-Name" -> "file-name"
    [] s = "Base64-String" -> "base64-string"
    [] s = "Data" -> "data"
    [] s = "INTEREST" -> "interest"
    [] s = "File" -> "file"
    [] s = "BASE64" -> "base64"
    [] s = "Rule" -> "rule"
    [] s = "Trust-Anchor" -> "trust-anchor"
    [] OTHER -> s

\* boost::iequals
iequals(a, b) == ToLower(a) = ToLower(b)

\* Name::getPrefix(n): the first n components, or all but the last -n
getPrefix(name, n) ==
  IF n < 0 THEN SubSeq(name, 1, Len(name) + n)
  ELSE SubSeq(name, 1, IF n < Len(name) THEN n ELSE Len(name))

----------------------------------------------------------------------------
(* The collaborators of the loader: the filter and checker factories and   *)
(* the certificate reader.                                                 *)

Filters == {"fA", "fB"}
Checkers == {"cFail", "cPass", "cCont"}

\* FilterFactory::create: the filter a section describes, or an error
FilterFactoryCreate(node) ==
  IF node \in Filters THEN [error |-> NoError, filter |-> node]
  ELSE [error |-> <<"bad filter", node>>, filter |-> ""]

\* CheckerFactory::create: the checker a section describes, or an error
CheckerFactoryCreate(node) ==
  IF node \in Checkers THEN [error |-> NoError, checker |-> node]
  ELSE [error |-> <<"bad checker", node>>, checker |-> ""]

NoCert == [name |-> <<>>, valid |-> FALSE]
Cert(n) == [name |-> n, valid |-> TRUE]

\* the file name load is given, as directory and base name
ConfFile == [dir |-> "etc", base |-> "validator.conf"]

\* boost::filesystem::absolute(file, path(filename).parent_path())
AbsolutePath(file, filename) ==
  IF file = "/abs/a2.cert" THEN <<"abs", "a2.cert">> ELSE <<filename.dir, file>>

\* io::load<IdentityCertificate>(path): the certificate files on disk
LoadCertFile(path) ==
  CASE path = <<"etc", "a1.cert">> -> Cert(<<"a", "v1">>)
    [] path = <<"abs", "a2.cert">> -> Cert(<<"a", "v2">>)
    [] path = <<"etc", "abkey.cert">> -> Cert(<<"a", "b", "KEY", "c">>)
    [] path = <<"etc", "root.cert">> -> Cert(<<"root", "v1">>)
    [] OTHER -> NoCert

\* io::load<IdentityCertificate>(stream): decoding an inline certificate
LoadCertBase64(text) ==
  CASE text = "b64-b1" -> Cert(<<"b", "v1">>)
    [] text = "b64-a3" -> Cert(<<"a", "v3">>)
    [] OTHER -> NoCert

----------------------------------------------------------------------------
(* Configuration trees.  A tree is a sequence of sections, a section a     *)
(* name and a sequence of entries, an entry a key and its data or subtree. *)

Entry(k, v) == [key |-> k, value |-> v]
Section(n, b) == [name |-> n, body |-> b]

\* the loader's part of the validator state
ConfigState(d, i, a) == [dataRules |-> d, interestRules |-> i, anchors |-> a]

\* DataRule(ruleId) / InterestRule(ruleId) with addFilter and addChecker
MakeRuleMutant(kind, ruleId, filters, checkers) ==
  [kind |-> kind, id |-> ruleId,
   filters |-> [i \in 1..Len(filters) |-> filters[Len(filters) + 1 - i]],
   checkers |-> checkers]
MakeRule(kind, ruleId, filters, checkers) ==
  [kind |-> kind, id |-> ruleId, filters |-> filters, checkers |-> checkers]

\* the first loop of onConfigRule: filters up to the first checker
RECURSIVE ScanFilters(_, _, _, _)
ScanFilters(sec, i, ruleId, acc) ==
  IF i > Len(sec) THEN [error |-> NoError, pos |-> i, filters |-> acc]
  ELSE IF ~iequals(sec[i].key, "filter")
    THEN IF iequals(sec[i].key, "checker")
           THEN [error |-> NoError, pos |-> i, filters |-> acc]
           ELSE [error |-> <<"Expect <rule.filter> in rule: ", ruleId>>,
                 pos |-> i, filters |-> acc]
    ELSE LET f == FilterFactoryCreate(sec[i].value)
         IN  IF f.error # NoError
               THEN [error |-> f.error, pos |-> i, filters |-> acc]
               ELSE ScanFilters(sec, i + 1, ruleId, Append(acc, f.filter))

\* the second loop of onConfigRule: checkers up to the end of the section
RECURSIVE ScanCheckers(_, _, _, _)
ScanCheckers(sec, i, ruleId, acc) ==
  IF i > Len(sec) THEN [error |-> NoError, pos |-> i, checkers |-> acc]
  ELSE IF ~iequals(sec[i].key, "checker")
    THEN [error |-> <<"Expect <rule.checker> in rule: ", ruleId>>,
          pos |-> i, checkers |-> acc]
    ELSE LET c == CheckerFactoryCreate(sec[i].value)
         IN  IF c.error # NoError
               THEN [error |-> c.error, pos |-> i, checkers |-> acc]
               ELSE ScanCheckers(sec, i + 1, ruleId, Append(acc, c.checker))

\* if (checkers.size() == 0) throw
NoCheckerMutant(checkers) == FALSE
NoChecker(checkers) == Len(checkers) = 0

\* the tail of onConfigRule: the rule is built and pushed on its list
PushRuleMutant(st, isForData, ruleId, filters, checkers) ==
  IF isForData
    THEN [st EXCEPT !.dataRules =
            <<MakeRule("DataRule", ruleId, filters, checkers)>> \o @]
    ELSE [st EXCEPT !.interestRules =
            <<MakeRule("InterestRule", ruleId, filters, checkers)>> \o @]
PushRule(st, isForData, ruleId, filters, checkers) ==
  IF isForData
    THEN [st EXCEPT !.dataRules =
            Append(@, MakeRule("DataRule", ruleId, filters, checkers))]
    ELSE [st EXCEPT !.interestRules =
            Append(@, MakeRule("InterestRule", ruleId, filters, checkers))]

\* ValidatorConfig::onConfigRule: the error raised and the state left
onConfigRule(configSection, filename, st) ==
  IF Len(configSection) = 0 \/ ~iequals(configSection[1].key, "id")
    THEN [error |-> <<"Expect <rule.id>!">>, st |-> st]
  ELSE LET ruleId == configSection[1].value IN
  IF Len(configSection) < 2 \/ ~iequals(configSection[2].key, "for")
    THEN [error |-> <<"Expect <rule.for> in rule: ", ruleId>>, st |-> st]
  ELSE LET usage == configSection[2].value IN
  IF ~iequals(usage, "data") /\ ~iequals(usage, "interest")
    THEN [error |-> <<"Unrecognized <rule.for>: ", usage, ruleId>>, st |-> st]
  ELSE LET isForData == iequals(usage, "data")
           fs == ScanFilters(configSection, 3, ruleId, <<>>) IN
  IF fs.error # NoError THEN [error |-> fs.error, st |-> st]
  ELSE LET cs == ScanCheckers(configSection, fs.pos, ruleId, <<>>) IN
  IF cs.error # NoError THEN [error |-> cs.error, st |-> st]
  ELSE IF cs.pos <= Len(configSection)
    THEN [error |-> <<"Expect the end of rule: ", ruleId>>, st |-> st]
  ELSE IF NoChecker(cs.checkers)
    THEN [error |-> <<"No <rule.checker> is specified in rule: ", ruleId>>,
          st |-> st]
  ELSE [error |-> NoError,
        st |-> PushRule(st, isForData, ruleId, fs.filters, cs.checkers)]

\* idCert->getName().getPrefix(-1), the key an anchor is stored under
AnchorKeyMutant(cert) == cert.name
AnchorKey(cert) == getPrefix(cert.name, -1)

\* m_anchors[idCert->getName().getPrefix(-1)] = idCert
StoreAnchorMutant(st, cert) ==
  [st EXCEPT !.anchors = @ @@ (AnchorKey(cert) :> cert)]
StoreAnchor(st, cert) ==
  [st EXCEPT !.anchors = (AnchorKey(cert) :> cert) @@ @]

\* if (propertyIt != configSection.end()): entries follow the one at pos
TrailingEntriesMutant(configSection, pos) == FALSE
TrailingEntries(configSection, pos) == Len(configSection) > pos

\* ValidatorConfig::onConfigTrustAnchor: the error raised and the state left
onConfigTrustAnchor(configSection, filename, st) ==
  IF Len(configSection) = 0 \/ ~iequals(configSection[1].key, "type")
    THEN [error |-> <<"Expect <trust-anchor.type>!">>, st |-> st]
  ELSE LET type == configSection[1].value IN
  IF iequals(type, "file") THEN
    IF Len(configSection) < 2 \/ ~iequals(configSection[2].key, "file-name")
      THEN [error |-> <<"Expect <trust-anchor.file-name>!">>, st |-> st]
    ELSE IF TrailingEntries(configSection, 2)
      THEN [error |-> <<"Expect the end of trust-anchor!">>, st |-> st]
    ELSE LET certfilePath == AbsolutePath(configSection[2].value, filename)
             idCert == LoadCertFile(certfilePath) IN
      IF idCert.valid
        THEN [error |-> NoError, st |-> StoreAnchor(st, idCert)]
        ELSE [error |-> <<"Cannot read certificate from file: ">>
                          \o certfilePath, st |-> st]
  ELSE IF iequals(type, "base64") THEN
    IF Len(configSection) < 2
         \/ ~iequals(configSection[2].key, "base64-string")
      THEN [error |-> <<"Expect <trust-anchor.base64-string>!">>, st |-> st]
    ELSE IF TrailingEntries(configSection, 2)
      THEN [error |-> <<"Expect the end of trust-anchor!">>, st |-> st]
    ELSE LET idCert == LoadCertBase64(configSection[2].value) IN
      IF idCert.valid
        THEN [error |-> NoError, st |-> StoreAnchor(st, idCert)]
        ELSE [error |-> <<"Cannot decode certificate from base64-string">>,
              st |-> st]
  ELSE [error |-> <<"Unsupported trust-anchor.type: ", type>>, st |-> st]

\* the loop of load over the sections, from section i on
RECURSIVE LoadSections(_, _, _, _)
LoadSections(configSection, i, filename, st) ==
  IF i > Len(configSection) THEN [error |-> NoError, st |-> st]
  ELSE LET sectionName == configSection[i].name
           section == configSection[i].body
           r == IF iequals(sectionName, "rule")
                  THEN onConfigRule(section, filename, st)
                ELSE IF iequals(sectionName, "trust-anchor")
                  THEN onConfigTrustAnchor(section, filename, st)
                ELSE [error |-> <<"Error processing configuration file",
                                  filename.base, " unrecognized section: ",
                                  sectionName>>,
                      st |-> st]
       IN  IF r.error # NoError THEN r
           ELSE LoadSections(configSection, i + 1, filename, r.st)

\* ValidatorConfig::load(const ConfigSection&, const std::string&)
loadMutant(configSection, filename, st) ==
  LoadSections(configSection, 1, filename, st)
load(configSection, filename, st) ==
  IF Len(configSection) = 0
    THEN [error |-> <<"Error processing configuration file", filename.base,
                      " no data">>, st |-> st]
    ELSE LoadSections(configSection, 1, filename, st)

----------------------------------------------------------------------------
(* The configurations the callers load. *)

SeqsUpTo(S, n) == UNION {[1..k -> S] : k \in 0..n}

RuleSection(name, idKey, ruleId, forKey, usage, body) ==
  Section(name, <<Entry(idKey, ruleId), Entry(forKey, usage)>> \o body)

PassBody == <<Entry("checker", "cPass")>>
ContBody == <<Entry("Checker", "cCont")>>
FilterFailBody == <<Entry("filter", "fA"), Entry("checker", "cFail")>>
LongBody == <<Entry("Filter", "fA"), Entry("checker", "cCont"),
              Entry("checker", "cFail")>>
TwoFilterBody == <<Entry("filter", "fB"), Entry("Filter", "fA"),
                   Entry("checker", "cCont"), Entry("checker", "cFail")>>

\* well-formed and malformed sections of the loader's grammar
LoadSectionSet ==
  { RuleSection("rule", "id", "r1", "for", "data", PassBody),
    RuleSection("Rule", "ID", "r2", "For", "Data", TwoFilterBody),
    RuleSection("rule", "id", "r1", "for", "interest", PassBody),
    RuleSection("rule", "id", "r2", "for", "INTEREST", LongBody),
    Section("rule", <<Entry("id", "r3"), Entry("for", "data")>>),
    RuleSection("rule", "id", "r3", "for", "data",
                <<Entry("checker", "cBad")>>),
    Section("trust-anchor", <<Entry("type", "file"),
                              Entry("file-name", "a1.cert")>>),
    Section("Trust-Anchor", <<Entry("Type", "File"),
                              Entry("File-Name", "/abs/a2.cert")>>),
    Section("trust-anchor", <<Entry("type", "BASE64"),
                              Entry("base64-string", "b64-b1")>>),
    Section("trust-anchor", <<Entry("type", "file"),
                              Entry("file-name", "missing.cert")>>),
    Section("options", <<>>) }

LoadTrees == SeqsUpTo(LoadSectionSet, MaxSections)

\* the entries the rule grammar is checked on
GrammarEntries ==
  { Entry("id", "r1"), Entry("ID", "r2"), Entry("for", "data"),
    Entry("For", "INTEREST"), Entry("for", "bogus"), Entry("filter", "fA"),
    Entry("filter", "fBad"), Entry("checker", "cPass"),
    Entry("Checker", "cBad"), Entry("comment", "x") }

GrammarTrees ==
  { <<Section("rule", body)>> : body \in SeqsUpTo(GrammarEntries, MaxEntries) }

\* the single-section configurations the validations run under
PolicyTrees ==
  { <<RuleSection("rule", "id", "r1", "for", u, b)>> :
      u \in {"data", "interest"}, b \in {PassBody, ContBody, FilterFailBody} }
  \cup { <<Section("trust-anchor", <<Entry("type", "file"),
                                     Entry("file-name", "a1.cert")>>)>>,
         <<Section("trust-anchor", <<Entry("type", "base64"),
                                     Entry("base64-string", "b64-b1")>>)>> }

\* the entries the trust-anchor sections of the grammar check are made of
AnchorEntries ==
  { Entry("type", "file"), Entry("Type", "BASE64"), Entry("type", "dir"),
    Entry("File-Name", "abkey.cert"), Entry("file-name", "missing.cert"),
    Entry("base64-string", "b64-b1"), Entry("Base64-String", "garbage") }

\* a trust-anchor section is exercised by one entry fewer than a rule
\* section: type, the certificate and one entry after it
AnchorTrees ==
  { <<Section("trust-anchor", body)>> :
      body \in SeqsUpTo(AnchorEntries, MaxEntries - 1) }

\* the configurations the certificate chains are walked under: rules whose
\* only checker returns Continue, and the anchor the chains end at
ChainTrees ==
  { <<RuleSection("rule", "id", "r1", "for", u, ContBody)>> :
      u \in {"data", "interest"} }
  \cup { <<Section("trust-anchor", <<Entry("type", "file"),
                                     Entry("file-name", "root.cert")>>)>> }

\* rule sections for data with one to three checkers, one with a filter
CheckBodies ==
  { <<Entry("checker", c)>> : c \in Checkers }
  \cup { <<Entry("checker", c), Entry("checker", d)>> : c, d \in Checkers }
  \cup { <<Entry("checker", "cCont"), Entry("checker", "cCont"),
           Entry("checker", "cPass")>>,
         <<Entry("checker", "cCont"), Entry("checker", "cFail"),
           Entry("checker", "cPass")>>,
         LongBody }

CheckTrees ==
  { <<RuleSection("rule", "id", "r1", "for", "data", b)>> : b \in CheckBodies }

\* a configuration text: its lines, each a key with or without a value,
\* an opening brace or a closing brace; the subtree of a filter or checker
\* entry is named by the entry's value
TextLine(key, value) == <<key, value>>
OpenBrace == <<"{">>
CloseBrace == <<"}">>

\* a brace line
IsBrace(line) == line \in {OpenBrace, CloseBrace}

\* the parser holds a key a brace may open: some line before line i is not
\* blank, and the last such line is not a brace
KeyBefore(lines, i) ==
  LET read == {j \in 1..(i - 1) : lines[j] # <<>>}
  IN  /\ read # {}
      /\ ~IsBrace(lines[CHOOSE j \in read : \A k \in read : k <= j])

\* boost::property_tree::read_info from line i on, depth braces open: the
\* tree read, or the parser's message and the line it was raised at. The
\* lines are the text split at its newline characters, so a text that ends
\* in a newline has a blank last line, and a brace left open is reported
\* at the last line, blank or not
RECURSIVE ReadInfoFrom(_, _, _, _)
ReadInfoFrom(lines, i, depth, tree) ==
  IF i > Len(lines)
    THEN IF depth > 0
           THEN [error |-> <<"unmatched {", Len(lines)>>, tree |-> <<>>]
         ELSE [error |-> NoError, tree |-> tree]
  ELSE LET line == lines[i] IN
    IF line = <<>>
      THEN ReadInfoFrom(lines, i + 1, depth, tree)
    ELSE IF line = OpenBrace
      THEN IF ~KeyBefore(lines, i)
             THEN [error |-> <<"unexpected {", i>>, tree |-> <<>>]
             ELSE ReadInfoFrom(lines, i + 1, depth + 1, tree)
    ELSE IF line = CloseBrace
      THEN IF depth = 0
             THEN [error |-> <<"unmatched }", i>>, tree |-> <<>>]
             ELSE ReadInfoFrom(lines, i + 1, depth - 1, tree)
    ELSE IF depth = 0
      THEN ReadInfoFrom(lines, i + 1, depth,
                        Append(tree, Section(line[1], <<>>)))
    ELSE IF depth = 1
      THEN ReadInfoFrom(lines, i + 1, depth,
             [tree EXCEPT ![Len(tree)].body =
                Append(@, Entry(line[1],
                                IF Len(line) >= 2 THEN line[2] ELSE ""))])
    ELSE ReadInfoFrom(lines, i + 1, depth, tree)

\* boost::property_tree::read_info(input, tree)
read_info(input) == ReadInfoFrom(input, 1, 0, <<>>)

\* the text of a tree: each section's name, then its entries in braces
RECURSIVE TextOf(_)
TextOf(tree) ==
  IF tree = <<>> THEN <<>>
  ELSE <<<<Head(tree).name>>, OpenBrace>>
         \o [i \in 1..Len(Head(tree).body) |->
               TextLine(Head(tree).body[i].key, Head(tree).body[i].value)]
         \o <<CloseBrace>> \o TextOf(Tail(tree))

\* the configuration texts callers hand over
InputTexts ==
  { TextOf(<<RuleSection("rule", "id", "r1", "for", "data", PassBody)>>),
    TextOf(<<Section("Trust-Anchor", <<Entry("Type", "File"),
                                       Entry("File-Name", "/abs/a2.cert")>>)>>),
    <<<<"rule">>, OpenBrace, TextLine("id", "r1"), TextLine("for", "interest"),
      TextLine("checker", "cPass"), OpenBrace, TextLine("type", "fixed"),
      CloseBrace, CloseBrace>>,
    <<<<"rule">>, OpenBrace, TextLine("id", "r1")>>,
    <<<<"rule">>, OpenBrace, TextLine("id", "r1"), <<>>>>,
    <<<<"rule">>, OpenBrace, CloseBrace, CloseBrace>>,
    <<OpenBrace>>,
    <<>> }

\* the configuration file names callers hand over
FileNames ==
  { ConfFile, [dir |-> "etc", base |-> "empty.conf"],
    [dir |-> "etc", base |-> "broken.conf"],
    [dir |-> "etc", base |-> "missing.conf"] }

\* std::ifstream::open: whether the file can be read, and its text
OpenFile(filename) ==
  CASE filename = ConfFile ->
         [good |-> TRUE,
          content |-> TextOf(<<Section("trust-anchor",
                                       <<Entry("type", "file"),
                                         Entry("file-name", "a1.cert")>>),
                               RuleSection("rule", "id", "r2", "for",
                                           "INTEREST", LongBody)>>)]
    [] filename = [dir |-> "etc", base |-> "empty.conf"] ->
         [good |-> TRUE, content |-> <<>>]
    [] filename = [dir |-> "etc", base |-> "broken.conf"] ->
         [good |-> TRUE,
          content |-> <<<<"rule">>, OpenBrace, TextLine("id", "r1")>>]
    [] OTHER -> [good |-> FALSE, content |-> <<>>]

RuleSectionCount(tree) ==
  Cardinality({i \in DOMAIN tree : iequals(tree[i].name, "rule")})

----------------------------------------------------------------------------
(* State after construction, and the load call. *)

NoCall == [op |-> "none", tree |-> <<>>, filename |-> ConfFile, done |-> TRUE]
\* what one checkPolicy call did
CallRecord(packet, stepCount) ==
  [kind |-> packet.kind, packet |-> packet, step |-> stepCount,
   matchEvals |-> <<>>,   \* indices of the rules whose match was evaluated
   checked |-> <<>>,      \* indices of the rules whose check was invoked
   checkersRun |-> <<>>,  \* the checkers invoked
   checkResult |-> -1,
   sigCalls |-> 0,        \* checkSignature calls
   sigOk |-> FALSE,       \* whether the signature handed over verifies
   sigKey |-> <<>>,       \* the key locator of the signature handed over
   sigStep |-> -1,        \* the stepCount handed to checkSignature
   cbOk |-> 0,            \* invocations of the call's onValidated
   cbFail |-> 0,          \* invocations of the call's onValidationFailed
   reasons |-> <<>>,      \* the reasons given to onValidationFailed
   nextSteps |-> <<>>,    \* certificate names of the requests pushed
   outOfRange |-> FALSE,  \* a component read past the name's components
   threw |-> FALSE]       \* the call ended by an exception

NoTrace == CallRecord([kind |-> "none", name |-> <<>>], 0)

\* ValidatorConfig::ValidatorConfig(face, certificateCache, stepLimit)
Init ==
  /\ m_stepLimit \in -1..MaxStepLimit
  /\ m_dataRules = <<>>
  /\ m_interestRules = <<>>
  /\ m_anchors = <<>>
  /\ call = NoCall
  /\ raised = NoError
  /\ vstate = "idle"
  /\ chain = <<>>
  /\ nOk = 0
  /\ nFail = 0
  /\ trace = NoTrace

\* a load call is entered: the record of the last checkPolicy call and of
\* a validation that has ended is dropped; a validation waiting for a
\* certificate keeps waiting
EnterLoad ==
  /\ call.done
  /\ raised' = NoError
  /\ trace' = NoTrace
  /\ IF vstate = "pending"
       THEN UNCHANGED <<vstate, chain, nOk, nFail>>
       ELSE /\ vstate' = "idle"
            /\ chain' = <<>>
            /\ nOk' = 0
            /\ nFail' = 0
  /\ UNCHANGED <<m_stepLimit, configVars>>

\* the tree fits the rule lists of the model
FitsRules(tree) ==
  Len(m_dataRules) + Len(m_interestRules) + RuleSectionCount(tree) <= MaxRules

\* a caller hands a configuration tree to load
CallLoad(tree) ==
  /\ call.done
  /\ FitsRules(tree)
  /\ EnterLoad
  /\ call' = [op |-> "load", tree |-> tree, filename |-> ConfFile,
              done |-> FALSE]

\* a load overload raised before it reached load(tree, filename)
RaiseInLoad(filename, error) ==
  /\ call.done
  /\ raised' = error
  /\ trace' = NoTrace
  /\ IF vstate = "pending"
       THEN UNCHANGED <<vstate, chain, nOk, nFail>>
       ELSE /\ vstate' = "idle"
            /\ chain' = <<>>
            /\ nOk' = 0
            /\ nFail' = 0
  /\ call' = [op |-> "load", tree |-> <<>>, filename |-> ConfFile,
              done |-> TRUE]
  /\ UNCHANGED <<m_stepLimit, configVars>>

\* ValidatorConfig::load(std::istream&, const std::string&): read_info,
\* then load(tree, filename)
LoadStream(input, filename) ==
  LET parsed == read_info(input) IN
  IF parsed.error # NoError
    THEN RaiseInLoad(filename,
                     <<"Failed to parse configuration file", filename.base>>
                       \o parsed.error)
    ELSE /\ FitsRules(parsed.tree)
         /\ EnterLoad
         /\ call' = [op |-> "load", tree |-> parsed.tree,
                     filename |-> filename, done |-> FALSE]

\* ValidatorConfig::load(const std::string& filename)
LoadFile ==
  /\ call.done
  /\ \E filename \in FileNames :
    LET inputFile == OpenFile(filename) IN
    IF ~inputFile.good
      THEN RaiseInLoad(filename,
                       <<"Failed to read configuration file: ",
                         filename.base>>)
      ELSE LoadStream(inputFile.content, filename)

\* ValidatorConfig::load(const std::string& input, const std::string&)
LoadString ==
  /\ call.done
  /\ \E input \in InputTexts : LoadStream(input, ConfFile)

\* load runs on the tree it was handed, to its return or its throw
Load ==
  /\ call.op = "load"
  /\ ~call.done
  /\ LET r == load(call.tree, call.filename,
                   ConfigState(m_dataRules, m_interestRules, m_anchors))
     IN  /\ m_dataRules' = r.st.dataRules
         /\ m_interestRules' = r.st.interestRules
         /\ m_anchors' = r.st.anchors
         /\ raised' = r.error
  /\ call' = [op |-> "load", tree |-> <<>>, filename |-> ConfFile,
              done |-> TRUE]
  /\ UNCHANGED <<m_stepLimit, validationVars>>

\* the loader alone, on every tree of LoadTrees
InitLoad == Init /\ m_stepLimit = MaxStepLimit
NextLoad ==
  \/ \E tree \in LoadTrees : CallLoad(tree)
  \/ LoadFile
  \/ LoadString
  \/ Load
SpecLoad == InitLoad /\ [][NextLoad]_vars

\* onConfigRule alone, on every rule section of GrammarTrees
InitRule ==
  /\ m_stepLimit = MaxStepLimit
  /\ m_dataRules = <<>>
  /\ m_interestRules = <<>>
  /\ m_anchors = <<>>
  /\ call \in {[op |-> "load", tree |-> t, filename |-> ConfFile,
               done |-> FALSE] : t \in GrammarTrees}
  /\ raised = NoError
  /\ vstate = "idle"
  /\ chain = <<>>
  /\ nOk = 0
  /\ nFail = 0
  /\ trace = NoTrace
NextRule == Load
SpecRule == InitRule /\ [][NextRule]_vars

\* onConfigTrustAnchor alone, on every trust-anchor section of AnchorTrees
InitAnchor == Init /\ m_stepLimit = MaxStepLimit
NextAnchor ==
  \/ \E tree \in AnchorTrees : CallLoad(tree)
  \/ Load
SpecAnchor == InitAnchor /\ [][NextAnchor]_vars

----------------------------------------------------------------------------
(* Packets, signatures and the collaborators of the policy evaluator.      *)

Data(name, keyLocator, sigOk) ==
  [kind |-> "data", name |-> name, keyLocator |-> keyLocator, sigOk |-> sigOk]
Interest(name) == [kind |-> "interest", name |-> name]

\* a Signature: the certificate name its key locator holds, and whether the
\* signature value verifies under that certificate's key
Signature(keyLocator, ok) == [keyLocator |-> keyLocator, ok |-> ok]

\* data.getSignature()
getSignature(data) == Signature(data.keyLocator, data.sigOk)

\* Component::blockFromValue of a SignatureInfo component: its key locator
SignatureInfoKeyLocator(component) ==
  CASE component = "si-a" -> <<"a", "v1">>
    [] component = "si-b" -> <<"b", "v1">>
    [] OTHER -> <<"z", "v1">>

\* Signature(interestName[-2].blockFromValue(),
\*           interestName[-1].blockFromValue())
InterestSignature(interestName) ==
  Signature(SignatureInfoKeyLocator(interestName[Len(interestName) - 1]),
            interestName[Len(interestName)] = "sv-ok")

\* the signatures a read past the components of a short name may yield
Signatures ==
  { Signature(k, ok) : k \in {<<"a", "v1">>, <<"z", "v1">>}, ok \in BOOLEAN }

\* Filter::match on a name
FilterMatch(filter, name) ==
  CASE filter = "fA" -> Len(name) >= 1 /\ name[1] = "a"
    [] filter = "fB" -> Len(name) >= 2
    [] OTHER -> FALSE

\* Rule::match: every filter of the rule accepts the packet's name
RuleMatch(rule, packet) ==
  \A i \in DOMAIN rule.filters : FilterMatch(rule.filters[i], packet.name)

\* the verdicts of a checker
Fail == -1
Continue == 0
Pass == 1

\* Checker::check: the verdict of one checker
CheckerCheck(checker) ==
  CASE checker = "cFail" -> Fail
    [] checker = "cPass" -> Pass
    [] OTHER -> Continue

\* Rule::check: the checkers in order up to the first Fail or Pass, which
\* invokes the failure or the success callback; Continue invokes neither
RECURSIVE RuleCheck(_, _, _)
RuleCheck(checkers, i, run) ==
  IF i > Len(checkers)
    THEN [verdict |-> Continue, run |-> run, cbOk |-> 0, cbFail |-> 0]
  ELSE LET v == CheckerCheck(checkers[i]) IN
    IF v = Fail
      THEN [verdict |-> Fail, run |-> Append(run, checkers[i]),
            cbOk |-> 0, cbFail |-> 1]
    ELSE IF v = Pass
      THEN [verdict |-> Pass, run |-> Append(run, checkers[i]),
            cbOk |-> 1, cbFail |-> 0]
    ELSE RuleCheck(checkers, i + 1, Append(run, checkers[i]))

\* the certificates the network serves, by certificate name
NetworkCerts ==
  { Data(<<"a", "v1">>, <<"b", "v1">>, TRUE),
    Data(<<"b", "v1">>, <<"a", "v1">>, TRUE),
    Data(<<"c1", "v1">>, <<"c2", "v1">>, TRUE),
    Data(<<"c2", "v1">>, <<"c3", "v1">>, TRUE),
    Data(<<"c3", "v1">>, <<"root", "v1">>, TRUE) }

\* the packets callers ask to validate
DataObjects ==
  { Data(<<"a", "x">>, <<"a", "v1">>, TRUE),
    Data(<<"a", "x">>, <<"b", "v1">>, FALSE),
    Data(<<"b", "x">>, <<"a", "v1">>, TRUE),
    Data(<<"b", "x">>, <<"z", "v1">>, TRUE) }

\* the packets validated along the certificate chain c1, c2, c3, root
ChainObjects ==
  { Data(<<"d", "x">>, <<"c1", "v1">>, TRUE),
    Data(<<"d", "y">>, <<"c2", "v1">>, TRUE),
    Data(<<"a", "x">>, <<"b", "v1">>, FALSE) }

InterestObjects ==
  { Interest(<<>>), Interest(<<"a">>),
    Interest(<<"a", "si-a", "sv-ok">>),
    Interest(<<"b", "si-b", "sv-bad">>),
    Interest(<<"si-a", "sv-ok">>) }

\* what the surroundings decide during one checkPolicy call: whether the
\* certificate cache holds the signing certificate, and what a read past
\* the components of a name yields
Environments ==
  [cacheHit : BOOLEAN, throws : BOOLEAN, garbage : Signatures]

----------------------------------------------------------------------------
(* checkPolicy.                                                            *)

\* onValidationFailed(packet, reason)
FailWith(rec, reason) ==
  [rec EXCEPT !.cbFail = @ + 1, !.reasons = Append(@, reason)]

\* ValidatorConfig::checkSignature: an anchor or a cached certificate
\* verifies the signature at once; otherwise a ValidationRequest for the
\* signing certificate is pushed with stepCount + 1
checkSignature(rec, signature, stepCount, env) ==
  LET r == [rec EXCEPT !.sigCalls = @ + 1, !.sigOk = signature.ok,
                       !.sigKey = signature.keyLocator,
                       !.sigStep = stepCount] IN
  IF getPrefix(signature.keyLocator, -1) \in DOMAIN m_anchors \/ env.cacheHit
    THEN IF signature.ok THEN [r EXCEPT !.cbOk = @ + 1]
         ELSE FailWith(r, "Cannot verify signature")
    ELSE [r EXCEPT !.nextSteps = Append(@, signature.keyLocator)]

\* if (m_stepLimit == stepCount)
StepLimitReachedMutant(stepCount) == m_stepLimit < stepCount
StepLimitReached(stepCount) == m_stepLimit = stepCount

\* the break that ends the loop over the rules after the first match
BreakAfterMatchMutant == FALSE
BreakAfterMatch == TRUE

\* if (!isMatched)
NotMatchedMutant(isMatched) == FALSE
NotMatched(isMatched) == ~isMatched

\* the loop of checkPolicy over a rule list, from rule i on
RECURSIVE ScanRules(_, _, _, _, _)
ScanRules(rules, i, packet, isMatched, rec) ==
  IF i > Len(rules) THEN [isMatched |-> isMatched, rec |-> rec]
  ELSE LET evaluated == [rec EXCEPT !.matchEvals = Append(@, i)] IN
    IF RuleMatch(rules[i], packet)
      THEN LET c == RuleCheck(rules[i].checkers, 1, <<>>)
               after == [evaluated EXCEPT
                           !.checked = Append(@, i),
                           !.checkersRun = @ \o c.run,
                           !.checkResult = c.verdict,
                           !.cbOk = @ + c.cbOk,
                           !.cbFail = @ + c.cbFail,
                           !.reasons = IF c.cbFail > 0
                                         THEN Append(@, "checker") ELSE @]
           IN  IF BreakAfterMatch
                 THEN [isMatched |-> TRUE, rec |-> after]
                 ELSE ScanRules(rules, i + 1, packet, TRUE, after)
      ELSE ScanRules(rules, i + 1, packet, isMatched, evaluated)

\* ValidatorConfig::checkPolicy(const Data&, ...)
checkPolicyData(data, stepCount, env) ==
  LET rec == CallRecord(data, stepCount) IN
  IF StepLimitReached(stepCount)
    THEN FailWith(rec, "Maximum steps of validation reached")
  ELSE LET scan == ScanRules(m_dataRules, 1, data, FALSE, rec) IN
  IF NotMatched(scan.isMatched)
    THEN FailWith(scan.rec, "No rule matched!")
  ELSE IF scan.rec.checkResult = 0
    THEN checkSignature(scan.rec, getSignature(data), stepCount, env)
  ELSE scan.rec

\* ValidatorConfig::checkPolicy(const Interest&, ...)
checkPolicyInterest(interest, stepCount, env) ==
  LET rec == CallRecord(interest, stepCount) IN
  IF StepLimitReached(stepCount)
    THEN FailWith(rec, "Maximum steps of validation reached")
  ELSE LET scan == ScanRules(m_interestRules, 1, interest, FALSE, rec) IN
  IF NotMatched(scan.isMatched)
    THEN FailWith(scan.rec, "No rule matched!")
  ELSE IF scan.rec.checkResult = 0
    THEN IF Len(interest.name) >= 2
           THEN checkSignature(scan.rec, InterestSignature(interest.name),
                               stepCount, env)
         \* interestName[-2] reads before the first component
         ELSE LET r == [scan.rec EXCEPT !.outOfRange = TRUE] IN
              IF env.throws THEN [r EXCEPT !.threw = TRUE]
              ELSE checkSignature(r, env.garbage, stepCount, env)
  ELSE scan.rec

\* what a checkPolicy call leaves of the rule lists and the anchor store:
\* it reads them and assigns none of them
checkPolicyConfigMutant(st) == [st EXCEPT !.dataRules = <<>>]
checkPolicyConfig(st) == st

\* the members after a checkPolicy call
AfterCheckPolicy ==
  LET st == checkPolicyConfig(
              ConfigState(m_dataRules, m_interestRules, m_anchors))
  IN  /\ m_dataRules' = st.dataRules
      /\ m_interestRules' = st.interestRules
      /\ m_anchors' = st.anchors

----------------------------------------------------------------------------
(* Validator::validate and the certificate requests it drives.             *)

\* onCertValidated / onCertValidationFailed up the chain of waiting packets:
\* whether the packet the caller asked about ends validated, when the
\* certificate that chain[k] waits for was validated (ok) or was not
RECURSIVE Unwind(_, _, _)
Unwind(waiting, k, ok) ==
  LET now == ok /\ waiting[k].verifies
  IN  IF k = 1 THEN now ELSE Unwind(waiting, k - 1, now)

\* a top-level validate call: checkPolicy with stepCount 0
Validate(packet, rec) ==
  /\ call.done
  /\ vstate # "pending"
  /\ trace' = rec
  /\ nOk' = rec.cbOk
  /\ nFail' = rec.cbFail
  /\ raised' = IF rec.threw THEN <<"exception">> ELSE NoError
  /\ chain' = IF rec.nextSteps # <<>> /\ ~rec.threw
                THEN <<[certName |-> rec.nextSteps[1],
                        verifies |-> rec.sigOk]>>
                ELSE <<>>
  /\ vstate' = IF chain' # <<>> THEN "pending" ELSE "done"
  /\ call' = [op |-> "validate", tree |-> <<>>, filename |-> ConfFile,
              done |-> TRUE]
  /\ AfterCheckPolicy
  /\ UNCHANGED m_stepLimit

\* Validator::validate(const Data&, onValidated, onValidationFailed)
ValidateData ==
  \E data \in DataObjects, env \in Environments :
    Validate(data, checkPolicyData(data, 0, env))

\* Validator::validate(const Data&, ...) on the packets of the chain
ValidateChainData ==
  \E data \in ChainObjects, env \in Environments :
    Validate(data, checkPolicyData(data, 0, env))

\* Validator::validate(const Interest&, onValidated, onValidationFailed)
ValidateInterest ==
  \E interest \in InterestObjects, env \in Environments :
    Validate(interest, checkPolicyInterest(interest, 0, env))

\* Validator::onData: the requested certificate arrives and is validated as
\* a Data packet with the request's step count
OnCertData ==
  /\ call.done
  /\ vstate = "pending"
  /\ Len(chain) < MaxDepth
  /\ \E cert \in NetworkCerts, env \in Environments :
       /\ cert.name = chain[Len(chain)].certName
       /\ LET rec == checkPolicyData(cert, Len(chain), env)
              ok == IF Unwind(chain, Len(chain), TRUE) THEN 1 ELSE 0
          IN  /\ trace' = rec
              /\ nOk' = nOk + rec.cbOk * ok
              /\ nFail' = nFail + rec.cbOk * (1 - ok) + rec.cbFail
              /\ chain' = IF rec.cbOk + rec.cbFail > 0 THEN <<>>
                          ELSE IF rec.nextSteps # <<>>
                            THEN Append(chain,
                                        [certName |-> rec.nextSteps[1],
                                         verifies |-> rec.sigOk])
                          ELSE chain
              /\ vstate' = IF rec.cbOk + rec.cbFail > 0 THEN "done"
                           ELSE "pending"
  /\ AfterCheckPolicy
  /\ UNCHANGED <<m_stepLimit, call, raised>>

\* Validator::onTimeout: the certificate cannot be fetched
OnCertTimeout ==
  /\ call.done
  /\ vstate = "pending"
  /\ nFail' = nFail + 1
  /\ chain' = <<>>
  /\ vstate' = "done"
  /\ UNCHANGED <<m_stepLimit, configVars, call, raised, nOk, trace>>

Next ==
  \/ \E tree \in PolicyTrees : CallLoad(tree)
  \/ Load
  \/ ValidateData
  \/ ValidateInterest
  \/ OnCertData
  \/ OnCertTimeout

Spec == Init /\ [][Next]_vars

\* validations of Data under rules of several checkers
InitCheck == Init /\ m_stepLimit = MaxStepLimit
NextCheck ==
  \/ \E tree \in CheckTrees : CallLoad(tree)
  \/ Load
  \/ ValidateData
  \/ OnCertData
  \/ OnCertTimeout
SpecCheck == InitCheck /\ [][NextCheck]_vars

\* validations under step limits 0 and 3, every rule returning Continue
InitChain ==
  /\ m_stepLimit \in {0, 3}
  /\ m_dataRules = <<>>
  /\ m_interestRules = <<>>
  /\ m_anchors = <<>>
  /\ call = NoCall
  /\ raised = NoError
  /\ vstate = "idle"
  /\ chain = <<>>
  /\ nOk = 0
  /\ nFail = 0
  /\ trace = NoTrace
NextChain ==
  \/ \E tree \in ChainTrees : CallLoad(tree)
  \/ Load
  \/ ValidateChainData
  \/ ValidateInterest
  \/ OnCertData
  \/ OnCertTimeout
SpecChain == InitChain /\ [][NextChain]_vars

----------------------------------------------------------------------------
(* Properties of the loader. *)

\* a step in which load runs
LoadStep == call.op = "load" /\ ~call.done

\* a state load has just returned to
Loaded == call.op = "load" /\ call.done

\* the values of the entries of a section stored under a key, in order
ValuesOf(body, k) ==
  LET sel == SelectSeq(body, LAMBDA e : ToLower(e.key) = k)
  IN  [i \in 1..Len(sel) |-> sel[i].value]

\* the rule a well-formed rule section declares
DeclaredRule(sec, kind) ==
  [kind |-> kind, id |-> sec.body[1].value,
   filters |-> ValuesOf(sec.body, "filter"),
   checkers |-> ValuesOf(sec.body, "checker")]

\* the rules a well-formed tree declares for a usage, in section order
DeclaredRules(tree, usage, kind) ==
  LET sel == SelectSeq(tree, LAMBDA sec :
                 /\ ToLower(sec.name) = "rule"
                 /\ ToLower(sec.body[2].value) = usage)
  IN  [i \in 1..Len(sel) |-> DeclaredRule(sel[i], kind)]

Least(S) == CHOOSE i \in S : \A j \in S : i <= j

IsPrefix(s, t) == Len(s) <= Len(t) /\ SubSeq(t, 1, Len(s)) = s

\* C6: whenever a load call raises a configuration error, the Data rule
\* list, the Interest rule list and the trust anchor store are what they
\* were before the call.
C6_AllOrNothing ==
  [][(LoadStep /\ raised' # NoError) => UNCHANGED configVars]_vars

\* the shape the rule grammar asks of a section's keys
KeyShape(body) ==
  \E nf \in 0..Len(body), nc \in 1..Len(body) :
    /\ Len(body) = 2 + nf + nc
    /\ ToLower(body[1].key) = "id"
    /\ ToLower(body[2].key) = "for"
    /\ ToLower(body[2].value) \in {"data", "interest"}
    /\ \A i \in 3..(2 + nf) : ToLower(body[i].key) = "filter"
    /\ \A i \in (3 + nf)..Len(body) : ToLower(body[i].key) = "checker"

\* every filter and checker entry describes something its factory builds
Constructible(body) ==
  \A i \in 3..Len(body) :
    /\ ToLower(body[i].key) = "filter" => body[i].value \in Filters
    /\ ToLower(body[i].key) = "checker" => body[i].value \in Checkers

\* C8 as stated: onConfigRule accepts a rule section if and only if its
\* keys have the shape id, for (data or interest), filter*, checker+, and
\* a rejected section adds no rule.
C8_AcceptsIffKeyShape ==
  [][LoadStep =>
       /\ (raised' = NoError) <=> KeyShape(call.tree[1].body)
       /\ raised' # NoError => UNCHANGED <<m_dataRules, m_interestRules>>]_vars

\* C8 as amended: onConfigRule accepts a rule section if and only if its
\* keys have that shape and the filter and checker factories build every
\* filter and checker entry; an accepted section adds exactly its rule to
\* the list of its usage, a rejected one adds no rule.
C8_AcceptsIffShapeAndConstructible ==
  [][LoadStep =>
       LET body == call.tree[1].body
           ok == KeyShape(body) /\ Constructible(body)
       IN  /\ (raised' = NoError) <=> ok
           /\ ~ok => UNCHANGED <<m_dataRules, m_interestRules>>
           /\ ok /\ ToLower(body[2].value) = "data" =>
                /\ m_dataRules' =
                     Append(m_dataRules, DeclaredRule(call.tree[1], "DataRule"))
                /\ UNCHANGED m_interestRules
           /\ ok /\ ToLower(body[2].value) = "interest" =>
                /\ m_interestRules' =
                     Append(m_interestRules,
                            DeclaredRule(call.tree[1], "InterestRule"))
                /\ UNCHANGED m_dataRules]_vars

\* an accepted section with a filter and a checker, stored as an Interest rule
C8_Witness ==
  /\ Loaded
  /\ raised = NoError
  /\ m_dataRules = <<>>
  /\ Len(m_interestRules) = 1
  /\ m_interestRules[1].filters = <<"fA">>
  /\ m_interestRules[1].checkers = <<"cPass">>

\* C9: a load that succeeds appends to the Data rule list exactly the rules
\* its tree declares for data, in section order, and to the Interest rule
\* list those it declares for interest; no load, failed or not, reorders or
\* removes a rule that was there.
C9_LoadOrder ==
  [][LoadStep =>
       /\ IsPrefix(m_dataRules, m_dataRules')
       /\ IsPrefix(m_interestRules, m_interestRules')
       /\ raised' = NoError =>
            /\ m_dataRules' =
                 m_dataRules \o DeclaredRules(call.tree, "data", "DataRule")
            /\ m_interestRules' =
                 m_interestRules
                   \o DeclaredRules(call.tree, "interest", "InterestRule")]_vars

\* two different Data rules, the later declared one second
C9_Witness ==
  /\ Loaded
  /\ raised = NoError
  /\ Len(m_dataRules) = 2
  /\ m_dataRules[1].id = "r2"
  /\ m_dataRules[2].id = "r1"

\* C10: every entry of the trust anchor store maps its key to a certificate
\* whose name has at least one component and, without its last component,
\* is the key.
C10_AnchorKeys ==
  \A k \in DOMAIN m_anchors :
    LET name == m_anchors[k].name
    IN  /\ Len(name) >= 1
        /\ k = SubSeq(name, 1, Len(name) - 1)

\* two anchors, the one under /a loaded from the second certificate of /a
C10_Witness ==
  /\ Loaded
  /\ DOMAIN m_anchors = {<<"a">>, <<"b">>}
  /\ m_anchors[<<"a">>].name = <<"a", "v2">>

\* the trust-anchor section that names the certificate file of /a/b/KEY/c
IsAbKeySection(sec) ==
  /\ ToLower(sec.name) = "trust-anchor"
  /\ Len(sec.body) = 2
  /\ ToLower(sec.body[1].key) = "type"
  /\ ToLower(sec.body[1].value) = "file"
  /\ ToLower(sec.body[2].key) = "file-name"
  /\ sec.body[2].value = "abkey.cert"

\* C11 as stated: loading a trust-anchor of type file whose certificate has
\* the subject name /a/b/KEY/c puts that certificate into the anchor store
\* under the key /a/b.
C11_StoredUnderAB ==
  [][(LoadStep /\ IsAbKeySection(call.tree[1])) =>
       /\ raised' = NoError
       /\ <<"a", "b">> \in DOMAIN m_anchors'
       /\ m_anchors'[<<"a", "b">>].name = <<"a", "b", "KEY", "c">>]_vars

\* C11 as amended: loading a trust-anchor of type file whose certificate has
\* the subject name /a/b/KEY/c succeeds and puts that certificate into the
\* anchor store under the key /a/b/KEY, the name without its last
\* component; no other entry of the store changes.
C11_StoredUnderABKey ==
  [][(LoadStep /\ IsAbKeySection(call.tree[1])) =>
       /\ raised' = NoError
       /\ DOMAIN m_anchors' = DOMAIN m_anchors \cup {<<"a", "b", "KEY">>}
       /\ m_anchors'[<<"a", "b", "KEY">>].name = <<"a", "b", "KEY", "c">>
       /\ \A k \in DOMAIN m_anchors \ {<<"a", "b", "KEY">>} :
            m_anchors'[k] = m_anchors[k]]_vars

\* the certificate of /a/b/KEY/c loaded from its file, beside another anchor
C11_Witness ==
  /\ Loaded
  /\ raised = NoError
  /\ DOMAIN m_anchors = {<<"a", "b", "KEY">>, <<"b">>}
  /\ m_anchors[<<"a", "b", "KEY">>].name = <<"a", "b", "KEY", "c">>

\* the certificate files that hold a certificate, and the strings that
\* decode to one
ReadableCertFiles == {"a1.cert", "/abs/a2.cert", "abkey.cert"}
DecodableStrings == {"b64-b1", "b64-a3"}

\* the shape the trust-anchor grammar asks of a section: type file and one
\* file-name, or type base64 and one base64-string, and nothing else
AnchorShape(body) ==
  /\ Len(body) = 2
  /\ ToLower(body[1].key) = "type"
  /\ \/ ToLower(body[1].value) = "file" /\ ToLower(body[2].key) = "file-name"
     \/ /\ ToLower(body[1].value) = "base64"
        /\ ToLower(body[2].key) = "base64-string"

\* the certificate a section of that shape names can be read
Decodes(body) ==
  IF ToLower(body[1].value) = "file"
    THEN body[2].value \in ReadableCertFiles
    ELSE body[2].value \in DecodableStrings

\* C14: onConfigTrustAnchor accepts a section if and only if its entries
\* are exactly type file and one file-name, or type base64 and one
\* base64-string, keys and type value compared without case, and the
\* certificate named can be read; an accepted section stores a certificate,
\* any other raises a configuration error and leaves the anchor store as it
\* was; the rule lists do not change either way.
C14_AnchorGrammar ==
  [][LoadStep =>
       LET body == call.tree[1].body
           ok == AnchorShape(body) /\ Decodes(body)
       IN  /\ (raised' = NoError) <=> ok
           /\ ~ok => UNCHANGED m_anchors
           /\ ok => \E k \in DOMAIN m_anchors' :
                      /\ m_anchors'[k].valid
                      /\ DOMAIN m_anchors' = DOMAIN m_anchors \cup {k}
           /\ UNCHANGED <<m_dataRules, m_interestRules>>]_vars

\* a well-shaped section whose string does not decode, rejected while the
\* store holds an anchor
C14_Witness ==
  /\ Loaded
  /\ raised = <<"Cannot decode certificate from base64-string">>
  /\ DOMAIN m_anchors = {<<"b">>}

\* a section load knows by name
KnownSection(sec) == ToLower(sec.name) \in {"rule", "trust-anchor"}

\* a section its handler accepts
WellFormed(sec) ==
  \/ /\ ToLower(sec.name) = "rule"
     /\ KeyShape(sec.body)
     /\ Constructible(sec.body)
  \/ /\ ToLower(sec.name) = "trust-anchor"
     /\ AnchorShape(sec.body)
     /\ Decodes(sec.body)

\* the error is the one load raises for a section name it does not know
NamesSection(err, name) ==
  /\ Len(err) = 4
  /\ err[1] = "Error processing configuration file"
  /\ err[3] = " unrecognized section: "
  /\ err[4] = name

\* C15 as stated: load succeeds only if the tree is not empty and every
\* top-level section is named rule or trust-anchor, without regard to
\* case; an empty tree raises a configuration error; a tree containing a
\* section of any other name raises a configuration error naming that
\* section.
C15_UnknownSectionNamed ==
  [][LoadStep =>
       /\ raised' = NoError =>
            /\ call.tree # <<>>
            /\ \A i \in DOMAIN call.tree : KnownSection(call.tree[i])
       /\ call.tree = <<>> => raised' # NoError
       /\ \A i \in DOMAIN call.tree :
            ~KnownSection(call.tree[i]) =>
              NamesSection(raised', call.tree[i].name)]_vars

\* C15 as amended: load succeeds only if the tree is not empty and every
\* top-level section is named rule or trust-anchor, without regard to
\* case; an empty tree raises a configuration error; a tree containing a
\* section of any other name raises a configuration error, which names
\* that section when every section before it is one its handler accepts.
C15_UnknownSectionRaises ==
  [][LoadStep =>
       /\ raised' = NoError =>
            /\ call.tree # <<>>
            /\ \A i \in DOMAIN call.tree : KnownSection(call.tree[i])
       /\ call.tree = <<>> => raised' # NoError
       /\ \A i \in DOMAIN call.tree :
            ~KnownSection(call.tree[i]) =>
              /\ raised' # NoError
              /\ (\A j \in 1..(i - 1) : WellFormed(call.tree[j])) =>
                   NamesSection(raised', call.tree[i].name)]_vars

\* the unknown section named by the error, after a rule section that was
\* applied
C15_Witness ==
  /\ Loaded
  /\ NamesSection(raised, "options")
  /\ Len(m_interestRules) = 1
  /\ m_dataRules = <<>>
  /\ m_anchors = <<>>

\* C16: every rule of the Data and of the Interest rule list has at least
\* one checker, and is the rule some well-formed section of its usage
\* declares: the same identifier, the filters in the order declared, the
\* checkers in the order declared.
C16_RulesWellFormed ==
  /\ \A i \in DOMAIN m_dataRules :
       /\ Len(m_dataRules[i].checkers) >= 1
       /\ \E sec \in LoadSectionSet :
            /\ WellFormed(sec)
            /\ ToLower(sec.name) = "rule"
            /\ ToLower(sec.body[2].value) = "data"
            /\ m_dataRules[i] = DeclaredRule(sec, "DataRule")
  /\ \A i \in DOMAIN m_interestRules :
       /\ Len(m_interestRules[i].checkers) >= 1
       /\ \E sec \in LoadSectionSet :
            /\ WellFormed(sec)
            /\ ToLower(sec.name) = "rule"
            /\ ToLower(sec.body[2].value) = "interest"
            /\ m_interestRules[i] = DeclaredRule(sec, "InterestRule")

\* after a load that failed, a rule with two different filters and two
\* different checkers, each in their declared order
C16_Witness ==
  /\ Loaded
  /\ raised # NoError
  /\ Len(m_dataRules) = 1
  /\ m_dataRules[1].filters = <<"fB", "fA">>
  /\ m_dataRules[1].checkers = <<"cCont", "cFail">>

\* the certificate a well-formed trust-anchor section names
CertNamed(body) ==
  IF ToLower(body[1].value) = "file"
    THEN LoadCertFile(AbsolutePath(body[2].value, ConfFile))
    ELSE LoadCertBase64(body[2].value)

\* the anchor store after the trust-anchor sections of a well-formed tree
\* were applied in order
RECURSIVE AnchorsAfter(_, _)
AnchorsAfter(anchors, tree) ==
  IF tree = <<>> THEN anchors
  ELSE IF ToLower(Head(tree).name) # "trust-anchor"
    THEN AnchorsAfter(anchors, Tail(tree))
  ELSE LET cert == CertNamed(Head(tree).body)
           key == SubSeq(cert.name, 1, Len(cert.name) - 1)
       IN  AnchorsAfter([k \in DOMAIN anchors \cup {key} |->
                           IF k = key THEN cert ELSE anchors[k]],
                        Tail(tree))

\* C20: load applies the sections one at a time, in order, each wholly or
\* not at all: it raises if and only if the tree is empty or holds a
\* section its handler does not accept, and it leaves the rule lists and
\* the anchor store as they were before the call plus the effects of the
\* sections that precede the first such section, in order; that section
\* and the ones after it add nothing.
C20_SectionsInOrder ==
  [][LoadStep =>
       LET tree == call.tree
           bad == {i \in DOMAIN tree : ~WellFormed(tree[i])}
           k == IF bad = {} THEN Len(tree) + 1 ELSE Least(bad)
           applied == SubSeq(tree, 1, k - 1)
       IN  /\ (raised' # NoError) <=> (bad # {} \/ tree = <<>>)
           /\ m_dataRules' =
                m_dataRules \o DeclaredRules(applied, "data", "DataRule")
           /\ m_interestRules' =
                m_interestRules
                  \o DeclaredRules(applied, "interest", "InterestRule")
           /\ m_anchors' = AnchorsAfter(m_anchors, applied)]_vars

\* a load that stopped at a certificate file it could not read, the rule
\* before it kept
C20_Witness ==
  /\ Loaded
  /\ raised # NoError
  /\ raised[1] = "Cannot read certificate from file: "
  /\ Len(m_dataRules) = 1
  /\ m_interestRules = <<>>
  /\ m_anchors = <<>>

----------------------------------------------------------------------------
(* Properties of the policy evaluator. *)

\* the state holds the record of a checkPolicy call
Called == trace.kind # "none"

\* the rule list the last checkPolicy call scanned
RulesScanned == IF trace.kind = "data" THEN m_dataRules ELSE m_interestRules

\* the rules of the scanned list that match the packet of the last call
Matching == {i \in DOMAIN RulesScanned : RuleMatch(RulesScanned[i], trace.packet)}

Swap(s, i, j) == [s EXCEPT ![i] = s[j], ![j] = s[i]]

\* C1: a checkPolicy call entered with stepCount equal to the step limit
\* invokes the failure callback exactly once with the maximum-steps reason,
\* never the success callback, and evaluates no rule's match or check and
\* no checkSignature.
C1_StepLimitFirst ==
  (Called /\ trace.step = m_stepLimit) =>
    /\ trace.cbFail = 1
    /\ trace.reasons = <<"Maximum steps of validation reached">>
    /\ trace.cbOk = 0
    /\ trace.matchEvals = <<>>
    /\ trace.checked = <<>>
    /\ trace.checkersRun = <<>>
    /\ trace.sigCalls = 0
    /\ trace.nextSteps = <<>>

\* a certificate checked at the step limit while the first Data rule
\* matches it and would pass it
C1_Witness ==
  /\ trace.kind = "data"
  /\ trace.step = m_stepLimit
  /\ trace.step >= 1
  /\ m_dataRules # <<>>
  /\ RuleMatch(m_dataRules[1], trace.packet)
  /\ m_dataRules[1].checkers = <<"cPass">>

\* C2: when a top-level validation has ended, exactly one of the caller's
\* success and failure callbacks has been invoked, exactly once; at no
\* time have more than one invocation been made.
C2_ExactlyOnce ==
  /\ nOk + nFail <= 1
  /\ vstate = "done" => nOk + nFail = 1

\* C3: when some rule of the scanned list matches the packet, check is
\* invoked on exactly one rule, the earliest that matches; no later rule's
\* match is evaluated; and with that rule swapped with a later matching
\* one, it is the later one's checkers that run.
C3_FirstMatchWins ==
  (Called /\ trace.step # m_stepLimit /\ Matching # {}) =>
    LET first == Least(Matching)
        rules == RulesScanned
    IN  /\ trace.checked = <<first>>
        /\ trace.matchEvals = [i \in 1..first |-> i]
        /\ trace.checkersRun = RuleCheck(rules[first].checkers, 1, <<>>).run
        /\ \A j \in Matching \ {first} :
             LET swapped ==
                   ScanRules(Swap(rules, first, j), 1, trace.packet, FALSE,
                             CallRecord(trace.packet, trace.step)).rec
             IN  /\ swapped.checked = <<first>>
                 /\ swapped.checkersRun =
                      RuleCheck(rules[j].checkers, 1, <<>>).run

\* two Data rules with different checkers that both match the packet
C3_Witness ==
  /\ trace.kind = "data"
  /\ trace.step # m_stepLimit
  /\ Matching = {1, 2}
  /\ m_dataRules[1].checkers = <<"cCont">>
  /\ m_dataRules[2].checkers = <<"cPass">>
  /\ trace.checkersRun = <<"cCont">>

\* C4: a checkPolicy call entered away from the step limit, with no rule
\* of the packet's kind matching, invokes the failure callback exactly
\* once with the no-rule-matched reason, never the success callback, no
\* checker and no checkSignature; only the rules of the packet's kind have
\* their match evaluated.
C4_NoRuleMatched ==
  (Called /\ trace.step # m_stepLimit /\ Matching = {}) =>
    /\ trace.cbFail = 1
    /\ trace.reasons = <<"No rule matched!">>
    /\ trace.cbOk = 0
    /\ trace.checked = <<>>
    /\ trace.checkersRun = <<>>
    /\ trace.sigCalls = 0
    /\ trace.nextSteps = <<>>
    /\ trace.matchEvals = [i \in 1..Len(RulesScanned) |-> i]

\* a Data packet while only an Interest rule, which matches every name,
\* is loaded
C4_Witness ==
  /\ trace.kind = "data"
  /\ trace.step # m_stepLimit
  /\ m_dataRules = <<>>
  /\ m_interestRules # <<>>
  /\ m_interestRules[1].filters = <<>>
  /\ trace.cbFail = 1

\* C5: a validation that starts with step count 0 makes no recursive
\* checkPolicy call at a depth beyond the step limit.
C5_DepthWithinLimit ==
  (Called /\ trace.step >= 1) => trace.step <= m_stepLimit

\* C12: with every rule returning Continue and validation started at step
\* count 0: under step limit 0 every checkPolicy call fails at once with
\* the maximum-steps reason; under step limit 3 the validation that has
\* fetched three certificates (the fourth of its chain being the anchor)
\* fails with the maximum-steps reason on the third, whatever the chain is
\* worth; and under step limit 3 the validation that has fetched two
\* certificates whose signatures verify, the second signed by an anchor
\* (the third of its chain), succeeds.
C12_StepLimitThreshold ==
  [][/\ (m_stepLimit = 0 /\ Called') =>
          /\ trace'.cbFail = 1
          /\ trace'.reasons = <<"Maximum steps of validation reached">>
          /\ vstate' = "done"
          /\ nOk' = 0
          /\ nFail' = 1
     /\ (m_stepLimit = 3 /\ vstate = "pending" /\ Len(chain) = 3
           /\ Called' /\ trace' # trace) =>
          /\ trace'.step = 3
          /\ trace'.reasons = <<"Maximum steps of validation reached">>
          /\ vstate' = "done"
          /\ nOk' = 0
          /\ nFail' = 1
     /\ (m_stepLimit = 3 /\ vstate = "pending" /\ Len(chain) = 2
           /\ Called' /\ trace' # trace
           /\ \A i \in DOMAIN chain : chain[i].verifies
           /\ trace'.packet.sigOk
           /\ getPrefix(trace'.packet.keyLocator, -1) \in DOMAIN m_anchors) =>
          /\ trace'.step = 2
          /\ vstate' = "done"
          /\ nOk' = 1
          /\ nFail' = 0]_vars

\* under step limit 3 the third certificate fetched, signed by the anchor
\* that is loaded, is refused for the step limit
C12_Witness ==
  /\ m_stepLimit = 3
  /\ vstate = "done"
  /\ trace.step = 3
  /\ trace.packet.name = <<"c3", "v1">>
  /\ <<"root">> \in DOMAIN m_anchors
  /\ trace.reasons = <<"Maximum steps of validation reached">>
  /\ nFail = 1

\* some anchor certificate's name has the prefix of the signing
\* certificate's name
SignedByAnchor ==
  \E k \in DOMAIN m_anchors :
    getPrefix(m_anchors[k].name, -1) = getPrefix(trace.sigKey, -1)

\* C13: when checkSignature is handed a signature whose signing certificate
\* name has the prefix of a loaded trust anchor, no certificate request is
\* issued and no further checkPolicy call follows; the call resolves at
\* once by exactly one callback, the success callback if and only if the
\* signature verifies.
C13_AnchorShortCircuit ==
  (Called /\ trace.sigCalls = 1 /\ SignedByAnchor) =>
    /\ trace.nextSteps = <<>>
    /\ trace.cbOk + trace.cbFail = 1
    /\ trace.cbOk = 1 <=> trace.sigOk
    /\ vstate = "done"
    /\ chain = <<>>

\* a fetched certificate, checked at step 1, signed under the loaded anchor
C13_Witness ==
  /\ Called
  /\ trace.step = 1
  /\ trace.sigCalls = 1
  /\ trace.sigKey = <<"a", "v1">>
  /\ <<"a">> \in DOMAIN m_anchors
  /\ trace.cbOk = 1

\* C17: no step other than the body of load changes the Data rule list,
\* the Interest rule list, the trust anchor store or the step limit: not a
\* checkPolicy call at the top level or on a fetched certificate, and not
\* a fetch that times out, whether or not a load ran in between.
C17_PolicyFrame ==
  [][~LoadStep => UNCHANGED <<configVars, m_stepLimit>>]_vars

\* a checkPolicy call that matched a rule and reached checkSignature while
\* a rule of each kind and an anchor are loaded
C17_Witness ==
  /\ Called
  /\ trace.checked # <<>>
  /\ trace.sigCalls = 1
  /\ Len(m_dataRules) = 1
  /\ Len(m_interestRules) = 1
  /\ m_anchors # <<>>

\* C18: a checkPolicy call calls checkSignature, once and with its own
\* stepCount, if and only if a rule matched and that rule's check returned
\* 0; when the rule's check returned another verdict the call invokes no
\* callback beyond the one the rule invoked, calls no checkSignature and
\* issues no certificate request.
C18_SignatureIffContinue ==
  Called =>
    /\ trace.sigCalls <= 1
    /\ trace.sigCalls = 1 <=> (trace.checked # <<>> /\ trace.checkResult = 0)
    /\ trace.sigCalls = 1 => trace.sigStep = trace.step
    /\ (trace.checked # <<>> /\ trace.checkResult # 0) =>
         /\ trace.sigCalls = 0
         /\ trace.nextSteps = <<>>
         /\ trace.cbOk = (IF trace.checkResult = Pass THEN 1 ELSE 0)
         /\ trace.cbFail = (IF trace.checkResult = Fail THEN 1 ELSE 0)
         /\ trace.reasons =
              (IF trace.checkResult = Fail THEN <<"checker">> ELSE <<>>)

\* the first checker of a rule that returns Fail or Pass, 0 if none does
FirstDecisive(checkers) ==
  LET d == {i \in DOMAIN checkers : CheckerCheck(checkers[i]) # Continue}
  IN  IF d = {} THEN 0 ELSE Least(d)

\* C19: in a checkPolicy call that matched a rule, the checkers invoked
\* are those of the first matching rule, in declared order, up to and
\* including the first that returns Fail or Pass, and no checker after it;
\* the verdict is that checker's, and is Continue if and only if every
\* checker of the rule returned Continue.
C19_CheckersInOrder ==
  (Called /\ trace.step # m_stepLimit /\ Matching # {}) =>
    LET cs == RulesScanned[Least(Matching)].checkers
        k == FirstDecisive(cs)
    IN  /\ trace.checkersRun = SubSeq(cs, 1, IF k = 0 THEN Len(cs) ELSE k)
        /\ trace.checkResult = (IF k = 0 THEN Continue ELSE CheckerCheck(cs[k]))
        /\ trace.checkResult = Continue <=>
             \A i \in DOMAIN cs : CheckerCheck(cs[i]) = Continue

\* a rule of three checkers whose second returns Fail: the third is not
\* invoked
C19_Witness ==
  /\ Called
  /\ Matching # {}
  /\ RulesScanned[Least(Matching)].checkers = <<"cCont", "cFail", "cPass">>
  /\ trace.checkersRun = <<"cCont", "cFail">>
  /\ trace.checkResult = Fail

\* C7: no checkPolicy call ends by an exception or reads a name component
\* out of range.
C7_NeverRaises ==
  Called => ~trace.threw /\ ~trace.outOfRange

====
